---------------------------- MODULE Spec2Model ----------------------------
(***************************************************************************)
(* Line-search history engine of seisflows                                 *)
(* (seisflows/plugins/line_search/base.py, class Base).                    *)
(*                                                                         *)
(* The state is the object's fields (step_lens, func_vals, gtg, gtp,       *)
(* step_count), the log file it writes, and the outcome of the last call.  *)
(* The driver (workflow.line_search) owns the trial counter: it increments *)
(* step_count itself, so that increment is an action of its own.           *)
(***************************************************************************)
EXTENDS Integers, Sequences, FiniteSets, Bags, TLC

(* ------------------------------ bounds -------------------------------- *)

\* longest step-length history the driver builds
MaxHist == 3
\* largest value the driver increments step_count to
MaxStepCount == 2
\* most data rows the log file holds
MaxLogRows == 1

\* the longest flow handed to Forward.main
MaxFlow == 3

(* --------------------------- input domains ---------------------------- *)

\* the (step_len, func_val) evaluations the driver passes in: a zero step, a
\* positive step, and a negative step whose absolute value is the largest
Evals == {<<0, 2>>, <<1, 1>>, <<-2, 2>>}
\* the iteration numbers (OPTIMIZE.iter) the driver passes in
Iters == {1}

VARIABLES
    step_lens,   \* self.step_lens : step lengths of all searches, in order
    func_vals,   \* self.func_vals : misfits, parallel to step_lens
    gtg,         \* self.gtg : one entry per initialize
    gtp,         \* self.gtp : one entry per initialize
    step_count,  \* self.step_count
    log,         \* the file self.log : [exists, lines]
    result,      \* the last call: what it was called on, what it returned or raised
    origin,      \* history variable: which call appended each entry of step_lens
    search,      \* history variable: the search in progress, as the driver ran it
    config,      \* self.step_count_max, self.step_len_max and the class of self
    workflow     \* the Forward workflow: parameters, self.start/stop, progress

vars == <<step_lens, func_vals, gtg, gtp, step_count, log, result, origin, search,
          config, workflow>>

\* what no call on the line search touches
fixed == <<config, workflow>>

(* ------------------------------ helpers ------------------------------- *)

Abs(n) == IF n < 0 THEN -n ELSE n

Max(a, b) == IF a > b THEN a ELSE b

Min(a, b) == IF a < b THEN a ELSE b

\* Python's normalisation of a slice bound i on a list of length n: a negative
\* bound counts from the end, and every bound is clamped into 0..n
PyBound(i, n) == IF i < 0 THEN Max(i + n, 0) ELSE Min(i, n)

\* Python's s[start:stop]
PySlice(s, start, stop) ==
    SubSeq(s, PyBound(start, Len(s)) + 1, PyBound(stop, Len(s)))

\* Python's s[:stop]
PySliceTo(s, stop) == SubSeq(s, 1, PyBound(stop, Len(s)))

\* an optional argument: None, or a value
None == <<>>

Some(v) == <<v>>

(* ------------------------------ log file ------------------------------ *)

\* f"{v:10.3e}" for the integers of the model (one digit before the point)
Fmt3e(v) == ToString(v) \o ".000e+00"

\* f"{iter:>10}" for an iteration number
FmtIter(it) == ToString(it)

\* the two header lines write_log writes to a new file
Header ==
    << [iter |-> "ITER", steplen |-> "STEPLEN", misfit |-> "MISFIT"],
       [iter |-> "==========", steplen |-> "==========", misfit |-> "=========="] >>

\* write_log that opens the file with "w" on every call
write_log_always_fresh(lg, iter, step_len, func_val) ==
    [exists |-> TRUE, lines |-> Header]

\* write_log: the file after the call. A call without iteration number, or
\* on a missing file, opens the file with "w" and writes the header only;
\* any other call appends one row, whose iteration column is blanked when
\* the step length is positive.
write_log(lg, iter, step_len, func_val) ==
    IF iter = None \/ ~lg.exists
    THEN [exists |-> TRUE, lines |-> Header]
    ELSE LET col == IF step_len # None /\ step_len[1] > 0
                    THEN ""
                    ELSE FmtIter(iter[1])
         IN  [exists |-> TRUE,
              lines  |-> Append(lg.lines,
                                [iter    |-> col,
                                 steplen |-> Fmt3e(step_len[1]),
                                 misfit  |-> Fmt3e(func_val[1])])]

\* data rows of the log: the lines after the two header lines
LogRows(lg) == IF lg.exists THEN SubSeq(lg.lines, 3, Len(lg.lines)) ELSE <<>>

(* --------------------------- history variables ------------------------ *)

\* no search in progress that the driver ran by the protocol
NoSearch == [ok |-> FALSE, trials |-> 0, pending |-> FALSE, pre |-> <<>>]

\* number of entries of step_lens that an initialize call appended
Searches(o) == Cardinality({k \in 1..Len(o) : o[k] = "initialize"})

(* --------------------------- search_history -------------------------- *)

\* seisflows.tools.array.count_zeros: number of zero entries
count_zeros(a) == Cardinality({k \in 1..Len(a) : a[k] = 0})

\* abs(x) on an array
AbsAll(x) == [k \in 1..Len(x) |-> Abs(x[k])]

RECURSIVE InsertIndex(_, _, _)
\* insertion of index n into the index list p, ordered by keys; an index
\* goes after the indices of equal key (the order numpy's sort gives on
\* arrays this short)
InsertIndex(p, n, keys) ==
    IF p = <<>> THEN <<n>>
    ELSE IF keys[p[Len(p)]] <= keys[n] THEN Append(p, n)
    ELSE Append(InsertIndex(SubSeq(p, 1, Len(p) - 1), n, keys), p[Len(p)])

RECURSIVE ArgsortPrefix(_, _)
ArgsortPrefix(keys, n) ==
    IF n = 0 THEN <<>> ELSE InsertIndex(ArgsortPrefix(keys, n - 1), n, keys)

\* keys.argsort(): the indices that put keys in non-decreasing order
argsort(keys) == ArgsortPrefix(keys, Len(keys))

\* a[idx] for an index array idx
Take(a, idx) == [k \in 1..Len(idx) |-> a[idx[k]]]

\* the object as it is
Self ==
    [step_lens |-> step_lens, func_vals |-> func_vals, gtg |-> gtg,
     gtp |-> gtp, step_count |-> step_count, config |-> config]

\* search_history that counts the zero steps of the current record only
SearchHistoryOf_zeros_of_record(self, sort) ==
    LET i  == self.step_count
        k  == Len(self.step_lens)
        x0 == PySlice(self.step_lens, k - i - 1, k)
        f0 == PySlice(self.func_vals, k - i - 1, k)
        j  == count_zeros(x0) - 1
        f  == IF sort THEN Take(f0, argsort(AbsAll(x0))) ELSE f0
        x  == IF sort THEN Take(x0, argsort(AbsAll(x0))) ELSE x0
    IN  [x |-> x, f |-> f, gtg |-> self.gtg, gtp |-> self.gtp,
         i |-> i, j |-> j]

\* what search_history(sort) returns on an object self: (x, f, gtg, gtp, i, j)
SearchHistoryOf(self, sort) ==
    LET i  == self.step_count
        j  == count_zeros(self.step_lens) - 1
        k  == Len(self.step_lens)
        x0 == PySlice(self.step_lens, k - i - 1, k)
        f0 == PySlice(self.func_vals, k - i - 1, k)
        f  == IF sort THEN Take(f0, argsort(AbsAll(x0))) ELSE f0
        x  == IF sort THEN Take(x0, argsort(AbsAll(x0))) ELSE x0
    IN  [x |-> x, f |-> f, gtg |-> self.gtg, gtp |-> self.gtp,
         i |-> i, j |-> j]

\* search_history that slices from k - i, one entry short
SearchHistoryResult_short(sort) ==
    LET i  == step_count
        j  == count_zeros(step_lens) - 1
        k  == Len(step_lens)
        x0 == PySlice(step_lens, k - i, k)
        f0 == PySlice(func_vals, k - i, k)
        f  == IF sort THEN Take(f0, argsort(AbsAll(x0))) ELSE f0
        x  == IF sort THEN Take(x0, argsort(AbsAll(x0))) ELSE x0
    IN  [x |-> x, f |-> f, gtg |-> gtg, gtp |-> gtp, i |-> i, j |-> j]

\* search_history that sorts x before f, so that f is indexed by the argsort
\* of the already sorted x
SearchHistoryResult_x_first(sort) ==
    LET i  == step_count
        j  == count_zeros(step_lens) - 1
        k  == Len(step_lens)
        x0 == PySlice(step_lens, k - i - 1, k)
        f0 == PySlice(func_vals, k - i - 1, k)
        x  == IF sort THEN Take(x0, argsort(AbsAll(x0))) ELSE x0
        f  == IF sort THEN Take(f0, argsort(AbsAll(x))) ELSE f0
    IN  [x |-> x, f |-> f, gtg |-> gtg, gtp |-> gtp, i |-> i, j |-> j]

\* what search_history(sort) returns on the object as it is
SearchHistoryResult(sort) == SearchHistoryOf(Self, sort)

(* ------------------------- calculate_step ---------------------------- *)

\* the classes of line search: the abstract Base and the two strategies that
\* subclass it
Strategies == {"Bracket", "Bounded"}

\* step_count_max arguments (PAR.STEP_COUNT_MAX) given to a strategy
StepCountMaxes == {1, 2}

\* step_len_max arguments (PAR.STEP_LEN_MAX) given to a strategy: unset, or 2
StepLenMaxes == {None, Some(2)}

\* np.inf
Inf == [inf |-> TRUE, val |-> 0]

\* self.step_len_max as __init__ stores it: np.inf when the argument is None
StoredStepLenMax(step_len_max) ==
    IF step_len_max = None THEN Inf ELSE [inf |-> FALSE, val |-> step_len_max[1]]

\* a <= self.step_len_max
WithinStepLenMax(self, a) ==
    self.config.step_len_max.inf \/ a <= self.config.step_len_max.val

\* step lengths a strategy computes before its safeguard: none, one inside
\* every bound of the model, one beyond every finite bound
RawSteps == {0, 1, 3}

\* the positive step lengths a strategy falls back on
PositiveSteps == {1, 3}

\* no safeguard: the step as computed
ClipStep_as_computed(self, raw) == {raw}

\* the safeguard on a proposed step: strictly positive and at most
\* step_len_max, clipped silently
ClipStep(self, raw) ==
    IF raw > 0
    THEN {IF WithinStepLenMax(self, raw) THEN raw
          ELSE self.config.step_len_max.val}
    ELSE {a \in PositiveSteps : WithinStepLenMax(self, a)}

\* a trial of the current search has a misfit below the base misfit, the
\* misfit of the entry the search started with
Improved(self) ==
    LET f == SearchHistoryOf(self, FALSE).f
    IN  \E k \in 2..Len(f) : f[k] < f[1]

\* a bracket: in step order, a misfit lower than both outer ones
Bracketed(self) ==
    LET f == SearchHistoryOf(self, TRUE).f
    IN  \E k \in 2..(Len(f) - 1) : f[k] < f[1] /\ f[k] < f[Len(f)]

\* bracketing that never gives up
BracketStatus_never_fails(self) ==
    LET r == SearchHistoryOf(self, TRUE)
    IN  IF r.j = 0 /\ r.i = 0 THEN {0}
        ELSE IF Bracketed(self) THEN {0, 1}
        ELSE {0}

\* status of the bracketing strategy
BracketStatus(self) ==
    LET r == SearchHistoryOf(self, TRUE)
    IN  IF r.j = 0 /\ r.i = 0 THEN {0}
        ELSE IF r.i >= self.config.step_count_max THEN {-1}
        ELSE IF Bracketed(self) THEN {0, 1}
        ELSE {0}

\* status of the bounded polynomial-fit strategy
BoundedStatus(self) ==
    LET r == SearchHistoryOf(self, TRUE)
    IN  IF r.i >= self.config.step_count_max
        THEN IF Improved(self) THEN {1} ELSE {-1}
        ELSE IF Improved(self) THEN {0, 1}
        ELSE {0}

\* what a strategy's calculate_step returns: (alpha, status)
StrategyStep(self) ==
    {[alpha |-> a, status |-> st] :
        a \in UNION {ClipStep(self, raw) : raw \in RawSteps},
        st \in IF self.config.strategy = "Bracket" THEN BracketStatus(self)
               ELSE BoundedStatus(self)}

\* calculate_step on an object self: the outcomes of the call. The abstract
\* Base always raises.
calculate_step(self) ==
    IF self.config.strategy = "Base"
    THEN {[raised |-> "NotImplementedError"]}
    ELSE StrategyStep(self)

\* what initialize and update hand back from calculate_step
Outcome(op, o) ==
    IF "raised" \in DOMAIN o
    THEN [op |-> op, raised |-> o.raised]
    ELSE [op |-> op, alpha |-> o.alpha, status |-> o.status]

(* ------------------------------ __init__ ------------------------------ *)

\* the workflow while no Forward.main is in progress
NoWorkflow == [pc |-> "idle"]

\* the constructor arguments (step_count_max, step_len_max) per class
InitArgs(strategy) ==
    IF strategy = "Base" THEN {<<1, None>>}
    ELSE StepCountMaxes \X StepLenMaxes

\* the fields __init__ sets from its arguments
MakeConfig(strategy, step_count_max, step_len_max) ==
    [strategy |-> strategy,
     step_count_max |-> step_count_max,
     step_len_max |-> StoredStepLenMax(step_len_max)]

\* the object of class strategy after construction: write_log() has written
\* the header
InitLineSearch(strategies) ==
    /\ \E st \in strategies : \E a \in InitArgs(st) :
           config = MakeConfig(st, a[1], a[2])
    /\ log = write_log([exists |-> FALSE, lines |-> <<>>], None, None, None)
    /\ func_vals = <<>>
    /\ step_lens = <<>>
    /\ gtg = <<>>
    /\ gtp = <<>>
    /\ step_count = 0
    /\ result = [op |-> "__init__"]
    /\ origin = <<>>
    /\ search = NoSearch

Init ==
    /\ InitLineSearch({"Base"})
    /\ workflow = NoWorkflow

\* __init__(step_count_max, step_len_max, log_file) of a new object, on the
\* log file of the object before it
__init__(step_count_max, step_len_max) ==
    /\ config' = MakeConfig(config.strategy, step_count_max, step_len_max)
    /\ log' = write_log(log, None, None, None)
    /\ func_vals' = <<>>
    /\ step_lens' = <<>>
    /\ gtg' = <<>>
    /\ gtp' = <<>>
    /\ step_count' = 0
    /\ result' = [op |-> "__init__"]
    /\ origin' = <<>>
    /\ search' = NoSearch
    /\ UNCHANGED workflow

(* ----------------------------- operations ---------------------------- *)

\* initialize without its first statement, self.step_count = 0
initialize_keeps_count(iter, step_len, func_val, gtg_in, gtp_in) ==
    /\ UNCHANGED fixed
    /\ Len(step_lens) < MaxHist
    /\ Len(gtg) < MaxHist
    /\ Len(LogRows(log)) < MaxLogRows
    /\ step_lens' = step_lens \o <<step_len>>
    /\ func_vals' = func_vals \o <<func_val>>
    /\ gtg' = gtg \o <<gtg_in>>
    /\ gtp' = gtp \o <<gtp_in>>
    /\ log' = write_log(log, Some(iter), Some(step_len), Some(func_val))
    /\ result' = [op |-> "initialize", raised |-> "NotImplementedError"]
    /\ origin' = origin \o <<"initialize">>
    /\ search' = [ok |-> TRUE, trials |-> 0, pending |-> FALSE,
                  pre |-> <<step_lens, func_vals, gtg, gtp>>]
    /\ UNCHANGED step_count

\* initialize that takes its entry back when calculate_step raises
initialize_rolls_back(iter, step_len, func_val, gtg_in, gtp_in) ==
    /\ UNCHANGED fixed
    /\ Len(step_lens) < MaxHist
    /\ Len(gtg) < MaxHist
    /\ Len(LogRows(log)) < MaxLogRows
    /\ step_count' = 0
    /\ log' = write_log(log, Some(iter), Some(step_len), Some(func_val))
    /\ result' = [op |-> "initialize", raised |-> "NotImplementedError"]
    /\ search' = NoSearch
    /\ UNCHANGED <<step_lens, func_vals, gtg, gtp, origin>>

\* initialize(iter, step_len, func_val, gtg, gtp): starts a search
initialize(iter, step_len, func_val, gtg_in, gtp_in) ==
    /\ UNCHANGED fixed
    /\ Len(step_lens) < MaxHist
    /\ Len(gtg) < MaxHist
    /\ Len(LogRows(log)) < MaxLogRows
    /\ step_count' = 0
    /\ step_lens' = step_lens \o <<step_len>>
    /\ func_vals' = func_vals \o <<func_val>>
    /\ gtg' = gtg \o <<gtg_in>>
    /\ gtp' = gtp \o <<gtp_in>>
    /\ log' = write_log(log, Some(iter), Some(step_len), Some(func_val))
    /\ origin' = origin \o <<"initialize">>
    /\ search' = [ok |-> TRUE, trials |-> 0, pending |-> FALSE,
                  pre |-> <<step_lens, func_vals, gtg, gtp>>]
    /\ \E o \in calculate_step([Self EXCEPT
                                   !.step_count = 0,
                                   !.step_lens = @ \o <<step_len>>,
                                   !.func_vals = @ \o <<func_val>>,
                                   !.gtg = @ \o <<gtg_in>>,
                                   !.gtp = @ \o <<gtp_in>>]) :
           result' = Outcome("initialize", o)

\* update with the increment that was moved out of it, self.step_count += 1
update_counts(iter, step_len, func_val) ==
    /\ UNCHANGED fixed
    /\ Len(step_lens) < MaxHist
    /\ Len(LogRows(log)) < MaxLogRows
    /\ step_count < MaxStepCount
    /\ step_count' = step_count + 1
    /\ step_lens' = step_lens \o <<step_len>>
    /\ func_vals' = func_vals \o <<func_val>>
    /\ log' = write_log(log, Some(iter), Some(step_len), Some(func_val))
    /\ result' = [op |-> "update", raised |-> "NotImplementedError"]
    /\ origin' = origin \o <<"update">>
    /\ search' = NoSearch
    /\ UNCHANGED <<gtg, gtp>>

\* update(iter, step_len, func_val): records one trial evaluation
update(iter, step_len, func_val) ==
    /\ UNCHANGED fixed
    /\ Len(step_lens) < MaxHist
    /\ Len(LogRows(log)) < MaxLogRows
    /\ step_lens' = step_lens \o <<step_len>>
    /\ func_vals' = func_vals \o <<func_val>>
    /\ log' = write_log(log, Some(iter), Some(step_len), Some(func_val))
    /\ origin' = origin \o <<"update">>
    /\ search' = IF search.ok /\ search.pending
                 THEN [search EXCEPT !.trials = @ + 1, !.pending = FALSE]
                 ELSE NoSearch
    /\ UNCHANGED <<gtg, gtp, step_count>>
    /\ \E o \in calculate_step([Self EXCEPT
                                   !.step_lens = @ \o <<step_len>>,
                                   !.func_vals = @ \o <<func_val>>]) :
           result' = Outcome("update", o)

\* the driver's step_count += 1 (workflow.line_search), done before update
increment_step_count ==
    /\ UNCHANGED fixed
    /\ step_count < MaxStepCount
    /\ step_count' = step_count + 1
    /\ result' = [op |-> "step_count += 1"]
    /\ search' = IF search.ok /\ ~search.pending
                 THEN [search EXCEPT !.pending = TRUE]
                 ELSE NoSearch
    /\ UNCHANGED <<step_lens, func_vals, gtg, gtp, log, origin>>

\* the assignments of clear_history
ClearFields ==
    /\ func_vals' = <<>>
    /\ step_lens' = <<>>
    /\ gtg' = <<>>
    /\ gtp' = <<>>
    /\ step_count' = 0

\* clear_history that leaves the trial counter alone
clear_history_keeps_count ==
    /\ UNCHANGED fixed
    /\ func_vals' = <<>>
    /\ step_lens' = <<>>
    /\ gtg' = <<>>
    /\ gtp' = <<>>
    /\ UNCHANGED step_count
    /\ result' = [op |-> "clear_history", had |-> Len(step_lens),
                  count |-> step_count]
    /\ origin' = <<>>
    /\ search' = NoSearch
    /\ UNCHANGED log

\* clear_history(); the result records what the call found
clear_history ==
    /\ UNCHANGED fixed
    /\ ClearFields
    /\ result' = [op |-> "clear_history", had |-> Len(step_lens),
                  count |-> step_count]
    /\ origin' = <<>>
    /\ search' = NoSearch
    /\ UNCHANGED log

\* reset that winds func_vals back by one entry, like the dot products
reset_misfits_by_one ==
    /\ UNCHANGED fixed
    /\ IF Len(step_lens) <= 1
       THEN /\ ClearFields
            /\ origin' = <<>>
       ELSE LET original_idx == -1 * step_count - 1
            IN  /\ gtg' = PySliceTo(gtg, -1)
                /\ gtp' = PySliceTo(gtp, -1)
                /\ step_lens' = PySliceTo(step_lens, original_idx)
                /\ func_vals' = PySliceTo(func_vals, -1)
                /\ origin' = PySliceTo(origin, original_idx)
                /\ UNCHANGED step_count
    /\ result' = [op |-> "reset", had |-> Len(step_lens), count |-> step_count]
    /\ search' = NoSearch
    /\ UNCHANGED log

\* reset whose first-step test is len(self.step_lens) < 1
reset_strict_test ==
    /\ UNCHANGED fixed
    /\ IF Len(step_lens) < 1
       THEN /\ ClearFields
            /\ origin' = <<>>
       ELSE LET original_idx == -1 * step_count - 1
            IN  /\ gtg' = PySliceTo(gtg, -1)
                /\ gtp' = PySliceTo(gtp, -1)
                /\ step_lens' = PySliceTo(step_lens, original_idx)
                /\ func_vals' = PySliceTo(func_vals, original_idx)
                /\ origin' = PySliceTo(origin, original_idx)
                /\ UNCHANGED step_count
    /\ result' = [op |-> "reset", had |-> Len(step_lens), count |-> step_count]
    /\ search' = NoSearch
    /\ UNCHANGED log

\* reset(): undoes the last search
reset ==
    /\ UNCHANGED fixed
    /\ IF Len(step_lens) <= 1
       THEN /\ ClearFields
            /\ origin' = <<>>
       ELSE LET original_idx == -1 * step_count - 1
            IN  /\ gtg' = PySliceTo(gtg, -1)
                /\ gtp' = PySliceTo(gtp, -1)
                /\ step_lens' = PySliceTo(step_lens, original_idx)
                /\ func_vals' = PySliceTo(func_vals, original_idx)
                /\ origin' = PySliceTo(origin, original_idx)
                /\ UNCHANGED step_count
    /\ result' = [op |-> "reset", had |-> Len(step_lens), count |-> step_count]
    /\ search' = NoSearch
    /\ UNCHANGED log

\* the log file is removed between two calls (os.path.exists turns False)
remove_log ==
    /\ UNCHANGED fixed
    /\ log.exists
    /\ log' = [exists |-> FALSE, lines |-> <<>>]
    /\ result' = [op |-> "remove_log"]
    /\ UNCHANGED <<step_lens, func_vals, gtg, gtp, step_count, origin, search>>

(* ------------------------ search_history (call) ---------------------- *)

\* search_history that sorts the stored history itself
search_history_in_place(sort) ==
    /\ UNCHANGED fixed
    /\ result' = [op |-> "search_history", sort |-> sort,
                  ret |-> SearchHistoryResult(sort)]
    /\ step_lens' = IF sort THEN Take(step_lens, argsort(AbsAll(step_lens)))
                    ELSE step_lens
    /\ func_vals' = IF sort THEN Take(func_vals, argsort(AbsAll(step_lens)))
                    ELSE func_vals
    /\ UNCHANGED <<gtg, gtp, step_count, log, origin, search>>

\* search_history(sort): reads the history, changes nothing
search_history(sort) ==
    /\ UNCHANGED fixed
    /\ result' = [op |-> "search_history", sort |-> sort,
                  ret |-> SearchHistoryResult(sort)]
    /\ UNCHANGED <<step_lens, func_vals, gtg, gtp, step_count, log, origin,
                   search>>

(* ---------------------------- specification --------------------------- *)

\* the (gtg, gtp) dot products the driver passes to initialize. The code
\* stores them and never reads their values, so one fresh pair per call
\* (numbered by its position in gtg) stands for any values.
Dots == {<<Len(gtg) + 1, -(Len(gtg) + 1)>>}

Initialize ==
    \E it \in Iters, ev \in Evals, d \in Dots :
        initialize(it, ev[1], ev[2], d[1], d[2])

Update == \E it \in Iters, ev \in Evals : update(it, ev[1], ev[2])

SearchHistory == \E sort \in BOOLEAN : search_history(sort)

\* a new object of the same class is constructed on the same log file
Construct == \E a \in InitArgs(config.strategy) : __init__(a[1], a[2])

Next ==
    \/ Construct
    \/ Initialize
    \/ Update
    \/ increment_step_count
    \/ clear_history
    \/ reset
    \/ remove_log
    \/ SearchHistory

Spec == Init /\ [][Next]_vars

\* a line search of one of the two strategies, driven like the Base one
InitStrategy ==
    /\ InitLineSearch(Strategies)
    /\ workflow = NoWorkflow

\* the calls that feed a strategy: construction, the two evaluations, the
\* driver's counter, and the log file going away
NextStrategy ==
    \/ Construct
    \/ Initialize
    \/ Update
    \/ increment_step_count
    \/ remove_log

SpecStrategy == InitStrategy /\ [][NextStrategy]_vars

(* -------------------------- Forward workflow -------------------------- *)

\* what a run of the workflow leaves alone
line_search ==
    <<step_lens, func_vals, gtg, gtp, step_count, log, result, origin, search,
      config>>

\* __name__ of the methods a flow is made of
FuncNames == {"evaluate_initial_misfit", "evaluate_gradient", "update_model"}

\* tuples of distinct methods, one to MaxFlow long
Flows ==
    {s \in UNION {[1..n -> FuncNames] : n \in 1..MaxFlow} :
        \A a, b \in DOMAIN s : s[a] = s[b] => a = b}

\* the flow argument of main: None, or a tuple of methods
FlowArgs ==
    {[kind |-> "none", items |-> <<>>]}
        \cup {[kind |-> "tuple", items |-> s] : s \in Flows}

\* PAR.RESUME_FROM and PAR.STOP_AFTER: unset, or a name
ParNames == {None} \cup {Some(n) : n \in FuncNames}

\* a Forward object on which main(flow, return_flow) has just been called
MainCalls ==
    {[pc |-> "main", flow |-> fl, return_flow |-> rf,
      RESUME_FROM |-> res, STOP_AFTER |-> stp,
      start |-> None, stop |-> None,
      todo |-> <<>>, ran |-> <<>>, raised |-> None] :
        fl \in FlowArgs, rf \in BOOLEAN, res \in ParNames, stp \in ParNames}

\* the default of main: (self.evaluate_initial_misfit) is the bound method
\* itself, the parentheses make no tuple
DefaultFlow == [kind |-> "method", items |-> <<"evaluate_initial_misfit">>]

\* the module setup of Forward.setup, in call order
ModuleSetup == <<"system.setup", "preprocess.setup", "solver.setup">>

\* list.index: the zero-based place of the first match, None for ValueError
index(fxnames, name) ==
    IF \E k \in 1..Len(fxnames) : fxnames[k] = name
    THEN Some((CHOOSE k \in 1..Len(fxnames) :
                  /\ fxnames[k] = name
                  /\ \A m \in 1..(k - 1) : fxnames[m] # name) - 1)
    ELSE None

\* sys.exit(-1)
SystemExit == [raised |-> Some("SystemExit(-1)"), start |-> None, stop |-> None]

\* _check_stop_resume_cond with the defaults its docstring names: start 0 and
\* stop -1
_check_stop_resume_cond_as_documented(w, flow) ==
    IF flow.kind # "tuple"
    THEN [raised |-> Some("TypeError"), start |-> None, stop |-> None]
    ELSE LET fxnames == flow.items
             start_idx == IF w.RESUME_FROM # None
                          THEN index(fxnames, w.RESUME_FROM[1])
                          ELSE Some(0)
             found == IF w.STOP_AFTER # None
                      THEN index(fxnames, w.STOP_AFTER[1])
                      ELSE None
             stop_idx == IF w.STOP_AFTER = None THEN Some(-1)
                         ELSE IF found # None THEN Some(found[1] + 1)
                         ELSE None
         IN  IF w.RESUME_FROM # None /\ start_idx = None THEN SystemExit
             ELSE IF w.STOP_AFTER # None /\ found = None THEN SystemExit
             ELSE IF /\ w.STOP_AFTER # None
                     /\ w.RESUME_FROM # None
                     /\ stop_idx[1] <= start_idx[1]
                  THEN SystemExit
             ELSE [raised |-> None, start |-> start_idx, stop |-> stop_idx]

\* _check_stop_resume_cond(flow): (start_idx, stop_idx), or what it raises.
\* Iterating over a bound method is a TypeError.
_check_stop_resume_cond(w, flow) ==
    IF flow.kind # "tuple"
    THEN [raised |-> Some("TypeError"), start |-> None, stop |-> None]
    ELSE LET fxnames == flow.items
             start_idx == IF w.RESUME_FROM # None
                          THEN index(fxnames, w.RESUME_FROM[1])
                          ELSE None
             found == IF w.STOP_AFTER # None
                      THEN index(fxnames, w.STOP_AFTER[1])
                      ELSE None
             stop_idx == IF found # None THEN Some(found[1] + 1) ELSE None
         IN  IF w.RESUME_FROM # None /\ start_idx = None THEN SystemExit
             ELSE IF w.STOP_AFTER # None /\ found = None THEN SystemExit
             ELSE IF /\ w.STOP_AFTER # None
                     /\ w.RESUME_FROM # None
                     /\ stop_idx[1] <= start_idx[1]
                  THEN SystemExit
             ELSE [raised |-> None, start |-> start_idx, stop |-> stop_idx]

\* setup(flow, return_flow): the object after the call
setup(w, flow, return_flow) ==
    IF return_flow
    THEN w
    ELSE LET c == _check_stop_resume_cond(w, flow)
         IN  IF c.raised # None
             THEN [w EXCEPT !.raised = c.raised]
             ELSE [w EXCEPT !.start = c.start, !.stop = c.stop,
                            !.ran = @ \o ModuleSetup]

\* flow[self.start: self.stop]
FlowSlice(items, start, stop) ==
    PySlice(items,
            IF start = None THEN 0 ELSE start[1],
            IF stop = None THEN Len(items) ELSE stop[1])

\* main(flow, return_flow) up to the head of its for loop: the default flow,
\* the call of setup, the slice of flow. Slicing a bound method is a
\* TypeError.
main ==
    /\ workflow.pc = "main"
    /\ LET flow == IF workflow.flow.kind = "none" THEN DefaultFlow
                   ELSE workflow.flow
           w == setup(workflow, flow, workflow.return_flow)
       IN  workflow' =
             IF w.raised # None
             THEN [w EXCEPT !.pc = "raised"]
             ELSE IF flow.kind # "tuple"
             THEN [w EXCEPT !.pc = "raised", !.raised = Some("TypeError")]
             ELSE [w EXCEPT !.pc = "for",
                            !.todo = FlowSlice(flow.items, w.start, w.stop)]
    /\ UNCHANGED line_search

\* _evaluate_function that saves the misfit before the solver has run
_evaluate_function_saves_first(path, suffix) ==
    <<"_write_model " \o path \o " m_" \o suffix,
      "_write_misfit " \o path \o " f_" \o suffix,
      "system.run solver.eval_func " \o path>>

\* _evaluate_function(path, suffix): the calls it makes, in order, each one
\* returning before the next is made
_evaluate_function(path, suffix) ==
    <<"_write_model " \o path \o " m_" \o suffix,
      "system.run solver.eval_func " \o path,
      "_write_misfit " \o path \o " f_" \o suffix>>

\* evaluate_initial_misfit()
evaluate_initial_misfit == _evaluate_function("GRAD", "new")

\* what a flow function does when called: the functions that subclasses add
\* to a flow have no body here
Body(func) ==
    IF func = "evaluate_initial_misfit" THEN evaluate_initial_misfit
    ELSE <<>>

\* one turn of the for loop of main: func()
call_func ==
    /\ workflow.pc = "for"
    /\ workflow.todo # <<>>
    /\ workflow' = [workflow EXCEPT
                      !.ran = Append(@, Head(workflow.todo))
                                  \o Body(Head(workflow.todo)),
                      !.todo = Tail(@)]
    /\ UNCHANGED line_search

\* the loop is over: self.finalize(), and main returns None
finalize ==
    /\ workflow.pc = "for"
    /\ workflow.todo = <<>>
    /\ workflow' = [workflow EXCEPT !.ran = Append(@, "finalize"),
                                    !.pc = "returned"]
    /\ UNCHANGED line_search

InitFlow ==
    /\ InitLineSearch({"Base"})
    /\ workflow \in MainCalls

NextFlow ==
    \/ main
    \/ call_func
    \/ finalize

SpecFlow == InitFlow /\ [][NextFlow]_vars

(* ------------------------------- claims ------------------------------ *)

\* C1: after any sequence of initialize, update, reset and clear_history
\* calls, with the driver incrementing step_count in between in any way, the
\* step-length history and the misfit history have the same length.
C1_SameLength == Len(step_lens) = Len(func_vals)

\* a reset has just truncated a history that a driver-incremented step_count
\* indexes, and left entries behind
C1_Witness ==
    /\ result.op = "reset"
    /\ result.count >= 1
    /\ Len(step_lens) >= 1
    /\ Len(func_vals) >= 1

\* C2 (as claimed): reset undoes exactly the most recent search. When the
\* search was started by initialize and ran N trials, each one the driver's
\* increment followed by update, the four sequences after reset are what they
\* were immediately before that initialize.
C2_ResetRestoresPreSearch ==
    [][(reset /\ search.ok /\ ~search.pending)
         => <<step_lens', func_vals', gtg', gtp'>> = search.pre]_vars

\* C3 (as claimed): in every reachable state gtg and gtp have the same length,
\* and that length is the number of searches started by initialize whose
\* entries are still in step_lens/func_vals.
C3_DotsCountSearches ==
    /\ Len(gtg) = Len(gtp)
    /\ Len(gtg) = Searches(origin)

\* no search is active: the history holds no entry of any initialize
NoActiveSearch == step_lens = <<>> /\ gtg = <<>>

\* C4 (as claimed): update called when no search is active leaves step_lens,
\* func_vals, gtg, gtp and step_count unchanged instead of appending the pair.
C4_UpdateWithoutSearchRejected ==
    [][\A it \in Iters, ev \in Evals :
         (NoActiveSearch /\ update(it, ev[1], ev[2]))
           => UNCHANGED <<step_lens, func_vals, gtg, gtp, step_count>>]_vars

\* C5: update appends exactly one (step_len, func_val) pair to the end of the
\* history and leaves step_count, gtg and gtp unchanged.
C5_UpdateAppendsOnePair ==
    [][\A it \in Iters, ev \in Evals :
         update(it, ev[1], ev[2])
           => /\ step_lens' = Append(step_lens, ev[1])
              /\ func_vals' = Append(func_vals, ev[2])
              /\ UNCHANGED <<step_count, gtg, gtp>>]_vars

\* an update has acted in a search whose trial counter the driver had
\* incremented
C5_Witness ==
    /\ result.op = "update"
    /\ step_count = 1
    /\ Len(step_lens) = 2
    /\ Len(gtg) = 1

\* C6: initialize, called in any state, sets step_count to 0 and appends
\* exactly the given values, one entry each, to the end of step_lens,
\* func_vals, gtg and gtp, leaving the earlier entries unchanged.
C6_InitializeAppendsAndZeroes ==
    [][\A it \in Iters, ev \in Evals, d \in Dots :
         initialize(it, ev[1], ev[2], d[1], d[2])
           => /\ step_count' = 0
              /\ step_lens' = Append(step_lens, ev[1])
              /\ func_vals' = Append(func_vals, ev[2])
              /\ gtg' = Append(gtg, d[1])
              /\ gtp' = Append(gtp, d[2])]_vars

\* an initialize has acted on a history that already held a search with a
\* trial
C6_Witness ==
    /\ result.op = "initialize"
    /\ Len(step_lens) = 3
    /\ origin = <<"initialize", "update", "initialize">>
    /\ Len(gtg) = 2

\* C7: reset called when the history holds at most one (step, misfit) entry
\* leaves step_lens, func_vals, gtg and gtp empty and step_count equal to 0.
C7_ResetOfShortHistoryClears ==
    [][(reset /\ Len(step_lens) <= 1)
         => /\ step_lens' = <<>>
            /\ func_vals' = <<>>
            /\ gtg' = <<>>
            /\ gtp' = <<>>
            /\ step_count' = 0]_vars

\* a reset has acted on a one-entry history while step_count was 1
C7_Witness ==
    /\ result.op = "reset"
    /\ result.had = 1
    /\ result.count = 1
    /\ step_count = 0

\* the entries of a history h that Python's h[k - i - 1:k] selects
CurrentTail(h) == PySlice(h, Len(h) - step_count - 1, Len(h))

\* the last n entries of a history h that holds at least n
LastEntries(h, n) == [m \in 1..n |-> h[Len(h) - n + m]]

\* C8 (as claimed): in every state in which search_history is called, also
\* when step_count exceeds the number of recorded entries, x and f hold
\* step_count + 1 entries.
C8_TailHasStepCountPlusOne ==
    result.op = "search_history"
        => /\ Len(result.ret.x) = step_count + 1
           /\ Len(result.ret.f) = step_count + 1

\* C8 (amended): in every state with step_count + 1 <= len(step_lens), x and
\* f hold step_count + 1 entries, and unsorted they are exactly the last
\* step_count + 1 entries of step_lens and func_vals; in every other state
\* x and f hold fewer than step_count + 1 entries.
C8_TailWhenRecorded ==
    result.op = "search_history"
        => IF step_count + 1 <= Len(step_lens)
           THEN /\ Len(result.ret.x) = step_count + 1
                /\ Len(result.ret.f) = step_count + 1
                /\ ~result.sort
                     => /\ result.ret.x
                             = LastEntries(step_lens, step_count + 1)
                        /\ result.ret.f
                             = LastEntries(func_vals, step_count + 1)
           ELSE /\ Len(result.ret.x) < step_count + 1
                /\ Len(result.ret.f) < step_count + 1

\* search_history has returned the unsorted two-entry tail of a longer
\* history
C8_Witness ==
    /\ result.op = "search_history"
    /\ ~result.sort
    /\ step_count = 1
    /\ Len(step_lens) = 3
    /\ Len(result.ret.x) = 2

\* the (step, misfit) pairs of two parallel arrays, as a bag
Pairs(x, f) ==
    LET S == {<<x[k], f[k]>> : k \in 1..Len(x)}
    IN  [p \in S |-> Cardinality({k \in 1..Len(x) : <<x[k], f[k]>> = p})]

\* C9: with sort enabled, search_history returns x in non-decreasing order
\* of absolute value, and (x, f) is a joint permutation of the unsorted tail:
\* the same bag of (step, misfit) pairs.
C9_SortedJointPermutation ==
    (result.op = "search_history" /\ result.sort)
        => /\ Len(result.ret.x) = Len(result.ret.f)
           /\ \A m \in 1..(Len(result.ret.x) - 1) :
                Abs(result.ret.x[m]) <= Abs(result.ret.x[m + 1])
           /\ Pairs(result.ret.x, result.ret.f)
                = Pairs(CurrentTail(step_lens), CurrentTail(func_vals))

\* search_history has sorted a tail that was stored out of order and whose
\* misfits differ, so that f had to move with x
C9_Witness ==
    /\ result.op = "search_history"
    /\ result.sort
    /\ Len(result.ret.x) >= 2
    /\ result.ret.x # CurrentTail(step_lens)
    /\ result.ret.f # CurrentTail(func_vals)

\* C10: search_history is read-only: it leaves step_lens, func_vals, gtg,
\* gtp and step_count unchanged, and two consecutive calls return identical
\* results.
C10_SearchHistoryReadOnly ==
    [][/\ SearchHistory
            => UNCHANGED <<step_lens, func_vals, gtg, gtp, step_count>>
       /\ (/\ result.op = "search_history"
           /\ result'.op = "search_history"
           /\ result'.sort = result.sort)
            => result'.ret = result.ret]_vars

\* search_history has returned a sorted copy while the stored history keeps
\* its three entries out of order
C10_Witness ==
    /\ result.op = "search_history"
    /\ result.sort
    /\ Len(step_lens) = 3
    /\ Len(result.ret.x) = 3
    /\ result.ret.x # step_lens

\* C11: clear_history leaves step_lens, func_vals, gtg and gtp empty and
\* step_count at zero, and a second call right after the first changes
\* nothing.
C11_ClearHistoryEmptiesAll ==
    [][clear_history =>
         /\ step_lens' = <<>>
         /\ func_vals' = <<>>
         /\ gtg' = <<>>
         /\ gtp' = <<>>
         /\ step_count' = 0
         /\ result.op = "clear_history" =>
                UNCHANGED <<step_lens, func_vals, gtg, gtp, step_count>>]_vars

\* clear_history has emptied a history of two entries with one trial counted
C11_Witness ==
    /\ result.op = "clear_history"
    /\ result.had >= 2
    /\ result.count >= 1
    /\ step_lens = <<>>
    /\ step_count = 0

\* the data rows of before are the first data rows of after
RowsKept(before, after) ==
    /\ Len(LogRows(after)) >= Len(LogRows(before))
    /\ SubSeq(LogRows(after), 1, Len(LogRows(before))) = LogRows(before)

\* C14: every call of initialize or update adds exactly one data row to the
\* log, also when the log file does not exist at the time of the call.
C14_EveryCallAddsOneRow ==
    [][(Initialize \/ Update) =>
         Len(LogRows(log')) = Len(LogRows(log)) + 1]_vars

\* C15: the log is append-only over the life of the file: no construction
\* on an existing log, initialize, update, reset or clear_history removes or
\* rewrites a data row written before.
C15_LogAppendOnly ==
    [][(Construct \/ Initialize \/ Update \/ reset \/ clear_history) =>
         RowsKept(log, log')]_vars

\* C16: write_log without an iteration number (the constructor's call), or
\* on a missing file, leaves exactly the two header lines; otherwise it
\* keeps what the file held and appends one row.
C16_WriteLogFreshOrAppend ==
    [][/\ Construct => log'.exists /\ log'.lines = Header
       /\ (Initialize \/ Update) =>
            IF ~log.exists
            THEN log'.exists /\ log'.lines = Header
            ELSE /\ log'.exists
                 /\ Len(log'.lines) = Len(log.lines) + 1
                 /\ SubSeq(log'.lines, 1, Len(log.lines)) = log.lines]_vars

\* initialize found no file and left the header alone, then update appended
\* its row: two evaluations in the history, one row in the log
C16_Witness ==
    /\ result.op = "update"
    /\ Len(step_lens) = 2
    /\ log.exists
    /\ Len(log.lines) = Len(Header) + 1

\* the flow functions run so far, in order
FuncsRan == SelectSeq(workflow.ran, LAMBDA e : e \in FuncNames)

\* the flow main works on
GivenFlow ==
    IF workflow.flow.kind = "none" THEN <<"evaluate_initial_misfit">>
    ELSE workflow.flow.items

\* a name that is set matches a function of the flow
Matches(name) ==
    name # None => \E k \in 1..Len(GivenFlow) : GivenFlow[k] = name[1]

\* the place of a name in the flow, counted from one
PlaceOf(name) == CHOOSE k \in 1..Len(GivenFlow) : GivenFlow[k] = name[1]

\* the functions from RESUME_FROM (or the first) through STOP_AFTER (or the
\* last), both included
ResumeToStop ==
    SubSeq(GivenFlow,
           IF workflow.RESUME_FROM = None THEN 1
           ELSE PlaceOf(workflow.RESUME_FROM),
           IF workflow.STOP_AFTER = None THEN Len(GivenFlow)
           ELSE PlaceOf(workflow.STOP_AFTER))

\* s is a prefix of t
IsPrefix(s, t) == Len(s) <= Len(t) /\ SubSeq(t, 1, Len(s)) = s

\* C17: main runs the functions of flow in order, each at most once: exactly
\* those from RESUME_FROM (or the first) through STOP_AFTER (or the last),
\* and finalize only after the last of them.
C17_RunsResumeToStopRange ==
    (Matches(workflow.RESUME_FROM) /\ Matches(workflow.STOP_AFTER)) =>
        /\ IsPrefix(FuncsRan, ResumeToStop)
        /\ workflow.pc = "returned" =>
             /\ FuncsRan = ResumeToStop
             /\ workflow.ran[Len(workflow.ran)] = "finalize"
        /\ \A k \in 1..Len(workflow.ran) :
             workflow.ran[k] = "finalize" => k = Len(workflow.ran)

\* C18: with RESUME_FROM or STOP_AFTER set to a name that matches no function
\* of flow, the workflow exits with code -1 before any module setup, flow
\* function or finalize has run.
C18_UnknownNameExitsFirst ==
    ~(Matches(workflow.RESUME_FROM) /\ Matches(workflow.STOP_AFTER)) =>
        /\ workflow.ran = <<>>
        /\ workflow.pc # "main" =>
             /\ workflow.pc = "raised"
             /\ workflow.raised = Some("SystemExit(-1)")

\* the run of the default flow: module setup, evaluate_initial_misfit and
\* what it does, finalize
DefaultRun ==
    ModuleSetup \o <<"evaluate_initial_misfit">> \o evaluate_initial_misfit
        \o <<"finalize">>

\* C19: main called with flow=None (and nothing else set) runs the module
\* setup, then evaluate_initial_misfit exactly once, then finalize.
C19_DefaultFlowRunsInitialMisfit ==
    (/\ workflow.flow.kind = "none"
     /\ ~workflow.return_flow
     /\ workflow.RESUME_FROM = None
     /\ workflow.STOP_AFTER = None) =>
        /\ workflow.pc # "raised"
        /\ IsPrefix(workflow.ran, DefaultRun)
        /\ workflow.pc = "returned" => workflow.ran = DefaultRun

\* C20: main called with return_flow=True runs nothing: no module setup, no
\* flow function, no finalize.
C20_ReturnFlowRunsNothing ==
    workflow.return_flow => workflow.ran = <<>>

\* initialize or update has returned (alpha, status) from a strategy
Returned == result.op \in {"initialize", "update"} /\ "status" \in DOMAIN result

\* no trial of the current search has a misfit below the base misfit
NoTrialBelowBase ==
    LET f == CurrentTail(func_vals)
    IN  \A k \in 2..Len(f) : f[k] >= f[1]

\* C12: whenever the trials of the current search have reached step_count_max
\* and no trial misfit is below the base misfit, the status returned by
\* initialize or update is negative, whichever strategy computes the step.
C12_ExhaustedWithoutImprovementFails ==
    (Returned /\ step_count >= config.step_count_max /\ NoTrialBelowBase) =>
        result.status < 0

\* update has returned a failure from a search whose one counted trial did
\* not improve on the base misfit
C12_Witness ==
    /\ Returned
    /\ result.op = "update"
    /\ search.ok
    /\ step_count >= config.step_count_max
    /\ Len(CurrentTail(func_vals)) >= 2
    /\ NoTrialBelowBase
    /\ result.status < 0

BothNamed ==
    /\ workflow.RESUME_FROM # None
    /\ workflow.STOP_AFTER # None
    /\ Matches(workflow.RESUME_FROM)
    /\ Matches(workflow.STOP_AFTER)

\* C21: with RESUME_FROM and STOP_AFTER both naming functions of flow, the
\* workflow exits with code -1 when STOP_AFTER comes before RESUME_FROM;
\* otherwise it runs at least one flow function, and exactly one when both
\* name the same function.
C21_StopBeforeResumeExits ==
    BothNamed =>
        IF PlaceOf(workflow.STOP_AFTER) < PlaceOf(workflow.RESUME_FROM)
        THEN /\ FuncsRan = <<>>
             /\ workflow.pc # "main" =>
                  /\ workflow.pc = "raised"
                  /\ workflow.raised = Some("SystemExit(-1)")
        ELSE /\ workflow.pc # "raised"
             /\ workflow.pc = "returned" =>
                  /\ Len(FuncsRan) >= 1
                  /\ workflow.STOP_AFTER = workflow.RESUME_FROM =>
                       Len(FuncsRan) = 1

\* _check_stop_resume_cond has been called on a tuple of functions with
\* neither RESUME_FROM nor STOP_AFTER given, and has returned
CheckedUnset ==
    /\ workflow.RESUME_FROM = None
    /\ workflow.STOP_AFTER = None
    /\ ~workflow.return_flow
    /\ workflow.flow.kind = "tuple"
    /\ workflow.pc \in {"for", "returned"}

EvaluationAt(k) ==
    /\ k + 2 <= Len(workflow.ran)
    /\ SubSeq(workflow.ran, k, k + 2) = _evaluate_function("GRAD", "new")

\* C23: within one _evaluate_function call the model is written, then the
\* solver's eval_func is run, then the misfit is saved: the misfit is never
\* saved before the solver run of the same call.
C23_ModelThenSolverThenMisfit ==
    \A k \in 1..Len(workflow.ran) :
        /\ workflow.ran[k] = "evaluate_initial_misfit" => EvaluationAt(k + 1)
        /\ workflow.ran[k] = "_write_misfit GRAD f_new" =>
             /\ k >= 3
             /\ workflow.ran[k - 1] = "system.run solver.eval_func GRAD"
             /\ workflow.ran[k - 2] = "_write_model GRAD m_new"

\* evaluate_initial_misfit has run as the second function of a flow
C23_Witness ==
    /\ Len(FuncsRan) >= 2
    /\ FuncsRan[2] = "evaluate_initial_misfit"
    /\ \E k \in 1..Len(workflow.ran) :
           workflow.ran[k] = "_write_misfit GRAD f_new"

\* the entries of the history recorded by initialize: its searches
SearchStarts == {k \in 1..Len(origin) : origin[k] = "initialize"}

\* every initialize of the history recorded step length 0 and every trial a
\* nonzero one
ZeroExactlyAtInitialize ==
    /\ Len(origin) = Len(step_lens)
    /\ \A k \in 1..Len(step_lens) :
           (origin[k] = "initialize") <=> (step_lens[k] = 0)

\* C24: the zero_count that search_history returns is the number of zero
\* entries of the entire step-length history minus one; when every
\* initialize recorded step length 0 and every trial a nonzero one, it is the
\* number of searches in the history minus one, and 0 exactly during the
\* first search.
C24_ZeroCountOverWholeHistory ==
    result.op = "search_history" =>
        /\ result.ret.j =
             Cardinality({k \in 1..Len(step_lens) : step_lens[k] = 0}) - 1
        /\ ZeroExactlyAtInitialize =>
             /\ result.ret.j = Cardinality(SearchStarts) - 1
             /\ result.ret.j = 0 <=> Cardinality(SearchStarts) = 1

\* search_history has been called in the second search of a history whose
\* first search had one trial: the record holds one zero, the history two
C24_Witness ==
    /\ result.op = "search_history"
    /\ ZeroExactlyAtInitialize
    /\ origin = <<"initialize", "update", "initialize">>
    /\ step_count = 0
    /\ result.ret.j = 1

\* the step-length cells of the log that show a step length above 0
PositiveStepCells == {Fmt3e(ev[1]) : ev \in {e \in Evals : e[1] > 0}}

\* the iteration cells of the log that show an iteration number
IterationCells == {FmtIter(it) : it \in Iters}

\* the iteration cell of a row is blank exactly when its step length is above
\* 0, and shows an iteration number otherwise
BlankIffPositive(row) ==
    /\ row.iter = "" <=> row.steplen \in PositiveStepCells
    /\ row.iter # "" => row.iter \in IterationCells

\* C25: the iteration column of a row is blank exactly when the row's step
\* length is above 0 and holds the iteration number otherwise, so each outer
\* iteration that starts with step length 0 (an initialize with step length
\* 0) puts one row with its iteration number in the log, ahead of the rows
\* of its trials.
C25_IterationRowLeadsItsTrials ==
    [][/\ \A k \in 1..Len(LogRows(log')) : BlankIffPositive(LogRows(log')[k])
       /\ (Initialize /\ step_lens'[Len(step_lens')] = 0) =>
            /\ Len(LogRows(log')) = Len(LogRows(log)) + 1
            /\ RowsKept(log, log')
            /\ LogRows(log')[Len(LogRows(log'))].iter \in IterationCells]_vars

\* h2 is h1 with one more entry at its end
OneMore(h1, h2) == Len(h2) = Len(h1) + 1 /\ SubSeq(h2, 1, Len(h1)) = h1

\* C26: initialize and update record the evaluation in the history and write
\* the log before they call calculate_step: when calculate_step raises, the
\* new entry is in step_lens and func_vals (and in gtg and gtp for
\* initialize) and is not taken back.
C26_EntryKeptWhenStepRaises ==
    [][/\ (Initialize /\ "raised" \in DOMAIN result') =>
            /\ OneMore(step_lens, step_lens')
            /\ OneMore(func_vals, func_vals')
            /\ OneMore(gtg, gtg')
            /\ OneMore(gtp, gtp')
            /\ log'.exists /\ log' # log
       /\ (Update /\ "raised" \in DOMAIN result') =>
            /\ OneMore(step_lens, step_lens')
            /\ OneMore(func_vals, func_vals')
            /\ log'.exists /\ log' # log]_vars

\* Base.calculate_step has raised out of initialize, and the history holds
\* the entry of that call as its second search
C26_Witness ==
    /\ result.op = "initialize"
    /\ "raised" \in DOMAIN result
    /\ result.raised = "NotImplementedError"
    /\ origin = <<"initialize", "initialize">>
    /\ Len(step_lens) = 2
    /\ Len(gtg) = 2

=============================================================================
